---------------------------- MODULE Spec2Model ----------------------------
(***************************************************************************)
(* CPAPathwayAnalysis: the two report pipelines analysis/barrier_by_group  *)
(* and analysis/barrier_summary, modelled as sequential programs over a    *)
(* survey table read from the CSV file.                                    *)
(*                                                                         *)
(* A Python str is a sequence of code points, so that strip(), lower(),    *)
(* the `in` substring test, string comparison and f-string concatenation   *)
(* are computed rather than assumed.  Python lists are 0-indexed; the      *)
(* sequences here are 1-indexed, so rows[0] is rows[1] and an index of 0   *)
(* stands for "list.index raised ValueError".                              *)
(*                                                                         *)
(* A float percentage count / total * 100 is kept as the exact fraction    *)
(* in lowest terms.  For the counts the model reaches (totals well below   *)
(* 2^26) distinct fractions are distinct doubles in the same order, and    *)
(* no value formatted with .1f lies on a rounding tie unless its reduced   *)
(* denominator is a multiple of 16.                                        *)
(***************************************************************************)
EXTENDS Integers, Sequences, FiniteSets, TLC

(***************************************************************************)
(* String literals of the two scripts and of the input tables.             *)
(***************************************************************************)
\* "Are you currently an undergraduate student or graduate student?"
GROUP_QUESTION ==
    <<65, 114, 101, 32, 121, 111, 117, 32, 99, 117, 114, 114, 101, 110, 116, 108, 121, 32,
      97, 110, 32, 117, 110, 100, 101, 114, 103, 114, 97, 100, 117, 97, 116, 101, 32, 115,
      116, 117, 100, 101, 110, 116, 32, 111, 114, 32, 103, 114, 97, 100, 117, 97, 116,
      101, 32, 115, 116, 117, 100, 101, 110, 116, 63>>

\* "Graduate degree may delay career advancement"
BARRIER_LABEL ==
    <<71, 114, 97, 100, 117, 97, 116, 101, 32, 100, 101, 103, 114, 101, 101, 32, 109, 97,
      121, 32, 100, 101, 108, 97, 121, 32, 99, 97, 114, 101, 101, 114, 32, 97, 100, 118,
      97, 110, 99, 101, 109, 101, 110, 116>>

\* "To what extent do you agree with the following statement about the value of a
\* graduate accounting degree?\n\nEarning a graduate degree may delay my career
\* advancement compared to peers who started full-time jobs earlier."
BARRIER_QUESTION_TEXT ==
    <<84, 111, 32, 119, 104, 97, 116, 32, 101, 120, 116, 101, 110, 116, 32, 100, 111, 32,
      121, 111, 117, 32, 97, 103, 114, 101, 101, 32, 119, 105, 116, 104, 32, 116, 104,
      101, 32, 102, 111, 108, 108, 111, 119, 105, 110, 103, 32, 115, 116, 97, 116, 101,
      109, 101, 110, 116, 32, 97, 98, 111, 117, 116, 32, 116, 104, 101, 32, 118, 97, 108,
      117, 101, 32, 111, 102, 32, 97, 32, 103, 114, 97, 100, 117, 97, 116, 101, 32, 97,
      99, 99, 111, 117, 110, 116, 105, 110, 103, 32, 100, 101, 103, 114, 101, 101, 63, 10,
      10, 69, 97, 114, 110, 105, 110, 103, 32, 97, 32, 103, 114, 97, 100, 117, 97, 116,
      101, 32, 100, 101, 103, 114, 101, 101, 32, 109, 97, 121, 32, 100, 101, 108, 97, 121,
      32, 109, 121, 32, 99, 97, 114, 101, 101, 114, 32, 97, 100, 118, 97, 110, 99, 101,
      109, 101, 110, 116, 32, 99, 111, 109, 112, 97, 114, 101, 100, 32, 116, 111, 32, 112,
      101, 101, 114, 115, 32, 119, 104, 111, 32, 115, 116, 97, 114, 116, 101, 100, 32,
      102, 117, 108, 108, 45, 116, 105, 109, 101, 32, 106, 111, 98, 115, 32, 101, 97, 114,
      108, 105, 101, 114, 46>>

\* "Strongly agree"
StronglyAgree == <<83, 116, 114, 111, 110, 103, 108, 121, 32, 97, 103, 114, 101, 101>>

\* "Somewhat agree"
SomewhatAgree == <<83, 111, 109, 101, 119, 104, 97, 116, 32, 97, 103, 114, 101, 101>>

\* "Agree"
Agree == <<65, 103, 114, 101, 101>>

\* "Neither agree nor disagree"
NeitherAgree ==
    <<78, 101, 105, 116, 104, 101, 114, 32, 97, 103, 114, 101, 101, 32, 110, 111, 114, 32,
      100, 105, 115, 97, 103, 114, 101, 101>>

\* "Disagree"
Disagree == <<68, 105, 115, 97, 103, 114, 101, 101>>

\* "Strongly disagree"
StronglyDisagree == <<83, 116, 114, 111, 110, 103, 108, 121, 32, 100, 105, 115, 97, 103, 114, 101, 101>>

\* "Very important"
VeryImportant == <<86, 101, 114, 121, 32, 105, 109, 112, 111, 114, 116, 97, 110, 116>>

\* "Extremely important"
ExtremelyImportant ==
    <<69, 120, 116, 114, 101, 109, 101, 108, 121, 32, 105, 109, 112, 111, 114, 116, 97,
      110, 116>>

\* "Moderately important"
ModeratelyImportant ==
    <<77, 111, 100, 101, 114, 97, 116, 101, 108, 121, 32, 105, 109, 112, 111, 114, 116,
      97, 110, 116>>

\* "Slightly important"
SlightlyImportant ==
    <<83, 108, 105, 103, 104, 116, 108, 121, 32, 105, 109, 112, 111, 114, 116, 97, 110,
      116>>

\* "Not at all important"
NotAtAllImportant ==
    <<78, 111, 116, 32, 97, 116, 32, 97, 108, 108, 32, 105, 109, 112, 111, 114, 116, 97,
      110, 116>>

\* "Very likely"
VeryLikely == <<86, 101, 114, 121, 32, 108, 105, 107, 101, 108, 121>>

\* "Somewhat likely"
SomewhatLikely == <<83, 111, 109, 101, 119, 104, 97, 116, 32, 108, 105, 107, 101, 108, 121>>

\* "Neither likely nor unlikely"
NeitherLikely ==
    <<78, 101, 105, 116, 104, 101, 114, 32, 108, 105, 107, 101, 108, 121, 32, 110, 111,
      114, 32, 117, 110, 108, 105, 107, 101, 108, 121>>

\* "Somewhat unlikely"
SomewhatUnlikely == <<83, 111, 109, 101, 119, 104, 97, 116, 32, 117, 110, 108, 105, 107, 101, 108, 121>>

\* "Very unlikely"
VeryUnlikely == <<86, 101, 114, 121, 32, 117, 110, 108, 105, 107, 101, 108, 121>>

\* "Selected"
Selected == <<83, 101, 108, 101, 99, 116, 101, 100>>

\* "Not Selected"
NotSelected == <<78, 111, 116, 32, 83, 101, 108, 101, 99, 116, 101, 100>>

\* "ResponseId"
ResponseId == <<82, 101, 115, 112, 111, 110, 115, 101, 73, 100>>

\* "barrier"
KwBarrier == <<98, 97, 114, 114, 105, 101, 114>>

\* "obstacle"
KwObstacle == <<111, 98, 115, 116, 97, 99, 108, 101>>

\* "challenge"
KwChallenge == <<99, 104, 97, 108, 108, 101, 110, 103, 101>>

\* "difficulty"
KwDifficulty == <<100, 105, 102, 102, 105, 99, 117, 108, 116, 121>>

\* "difficult"
KwDifficult == <<100, 105, 102, 102, 105, 99, 117, 108, 116>>

\* "Dataset does not contain enough rows to parse."
MsgNotEnoughRows ==
    <<68, 97, 116, 97, 115, 101, 116, 32, 100, 111, 101, 115, 32, 110, 111, 116, 32, 99,
      111, 110, 116, 97, 105, 110, 32, 101, 110, 111, 117, 103, 104, 32, 114, 111, 119,
      115, 32, 116, 111, 32, 112, 97, 114, 115, 101, 46>>

\* "Group question not found: "
MsgGroupNotFound ==
    <<71, 114, 111, 117, 112, 32, 113, 117, 101, 115, 116, 105, 111, 110, 32, 110, 111,
      116, 32, 102, 111, 117, 110, 100, 58, 32>>

\* "No respondent group values found."
MsgNoGroups ==
    <<78, 111, 32, 114, 101, 115, 112, 111, 110, 100, 101, 110, 116, 32, 103, 114, 111,
      117, 112, 32, 118, 97, 108, 117, 101, 115, 32, 102, 111, 117, 110, 100, 46>>

\* "Barrier question not found in dataset: "
MsgBarrierNotFound ==
    <<66, 97, 114, 114, 105, 101, 114, 32, 113, 117, 101, 115, 116, 105, 111, 110, 32,
      110, 111, 116, 32, 102, 111, 117, 110, 100, 32, 105, 110, 32, 100, 97, 116, 97, 115,
      101, 116, 58, 32>>

\* "'ResponseId' is not in list"
MsgValueError ==
    <<39, 82, 101, 115, 112, 111, 110, 115, 101, 73, 100, 39, 32, 105, 115, 32, 110, 111,
      116, 32, 105, 110, 32, 108, 105, 115, 116>>

\* "Graduate"
Graduate == <<71, 114, 97, 100, 117, 97, 116, 101>>

\* "Undergraduate"
Undergraduate == <<85, 110, 100, 101, 114, 103, 114, 97, 100, 117, 97, 116, 101>>

\* " Graduate "
GraduatePadded == <<32, 71, 114, 97, 100, 117, 97, 116, 101, 32>>

\* " Agree"
AgreePadded == <<32, 65, 103, 114, 101, 101>>

\* " "
Blank == <<32>>

\* ""
Empty == <<>>

\* "What is your age?"
OtherQuestion == <<87, 104, 97, 116, 32, 105, 115, 32, 121, 111, 117, 114, 32, 97, 103, 101, 63>>

\* "Biggest BARRIER to licensure"
QBarrier ==
    <<66, 105, 103, 103, 101, 115, 116, 32, 66, 65, 82, 82, 73, 69, 82, 32, 116, 111, 32,
      108, 105, 99, 101, 110, 115, 117, 114, 101>>

\* "Cost is a challenge"
QChallenge ==
    <<67, 111, 115, 116, 32, 105, 115, 32, 97, 32, 99, 104, 97, 108, 108, 101, 110, 103,
      101>>

\* "Q1"
QID1 == <<81, 49>>

\* "Q2"
QID2 == <<81, 50>>

\* "Q3"
QID3 == <<81, 51>>

\* "{"ImportId":"QID"}"
ImportId == <<123, 34, 73, 109, 112, 111, 114, 116, 73, 100, 34, 58, 34, 81, 73, 68, 34, 125>>

\* "R_1"
R1 == <<82, 95, 49>>

(***************************************************************************)
(* Bounds of the input tables.                                             *)
(***************************************************************************)
MaxDataRows == 2
MaxProbe == 4

(***************************************************************************)
(* Python built-ins the scripts use.                                       *)
(***************************************************************************)
\* str.isspace for one ASCII code point: \t \n \v \f \r, FS GS RS US, space.
IsSpace(c) == c \in (9..13) \cup (28..32)

RECURSIVE lstrip(_)
lstrip(s) == IF s # <<>> /\ IsSpace(Head(s)) THEN lstrip(Tail(s)) ELSE s

RECURSIVE rstrip(_)
rstrip(s) ==
    IF s # <<>> /\ IsSpace(s[Len(s)]) THEN rstrip(SubSeq(s, 1, Len(s) - 1)) ELSE s

\* str.strip()
strip(s) == rstrip(lstrip(s))

\* str.lower() on ASCII letters
lower(s) == [i \in 1..Len(s) |-> IF s[i] \in 65..90 THEN s[i] + 32 ELSE s[i]]

\* `needle in haystack` on two str
Contains(haystack, needle) ==
    \E i \in 1..(Len(haystack) - Len(needle) + 1) :
        SubSeq(haystack, i, i + Len(needle) - 1) = needle

\* str.__lt__: code-point lexicographic order
StrLess(a, b) ==
    \E k \in 1..(Len(b)) :
        /\ k <= Len(a) + 1
        /\ \A j \in 1..(k - 1) : a[j] = b[j]
        /\ (k = Len(a) + 1 \/ a[k] < b[k])

\* list.index(x): the first position holding x; 0 stands for ValueError
Index(list, x) ==
    IF \E i \in 1..Len(list) : list[i] = x
    THEN CHOOSE i \in 1..Len(list) :
             list[i] = x /\ \A j \in 1..(i - 1) : list[j] # x
    ELSE 0

\* SortedStrs with the order reversed, as sorted(..., reverse=True) would give.
RECURSIVE SortedStrsDescending(_)
SortedStrsDescending(S) ==
    IF S = {} THEN <<>>
    ELSE LET m == CHOOSE x \in S : \A y \in S \ {x} : StrLess(y, x)
         IN  <<m>> \o SortedStrsDescending(S \ {m})

\* sorted(set of str): ascending, each element once
RECURSIVE SortedStrs(_)
SortedStrs(S) ==
    IF S = {} THEN <<>>
    ELSE LET m == CHOOSE x \in S : \A y \in S \ {x} : StrLess(x, y)
         IN  <<m>> \o SortedStrs(S \ {m})

RECURSIVE GCD(_, _)
GCD(a, b) == IF b = 0 THEN a ELSE GCD(b, a % b)

\* The float n / d (d > 0, n >= 0) as a fraction in lowest terms.
Ratio(n, d) == LET g == GCD(n, d) IN [num |-> n \div g, den |-> d \div g]

\* 0.0
Zero == [num |-> 0, den |-> 1]

\* float <
PctLess(p, q) == p.num * q.den < q.num * p.den

\* float - (used only with p >= q)
PctSub(p, q) == Ratio(p.num * q.den - q.num * p.den, p.den * q.den)

\* format(p, ".1f"), in tenths: the nearest tenth, a tie going to the even one
Fmt1(p) ==
    LET q == (p.num * 10) \div p.den
        r == (p.num * 10) % p.den
    IN  IF 2 * r > p.den THEN q + 1
        ELSE IF 2 * r < p.den THEN q
        ELSE IF q % 2 = 0 THEN q ELSE q + 1

(***************************************************************************)
(* State.                                                                  *)
(***************************************************************************)
VARIABLES
    pipeline,           \* which script runs, or "BarrierResult" for the dataclass alone
    rows,               \* list(iter_rows(DATA_PATH)): the CSV file's rows
    pc,                 \* position in main()
    exit,               \* "running", "returned", "SystemExit", "ValueError"
    message,            \* the text the interpreter prints when the run is terminated
    group_index,        \* barrier_by_group: column of GROUP_QUESTION
    groups,             \* barrier_by_group: sorted distinct group values
    group_totals,       \* barrier_by_group: group -> respondents
    barrier_i,          \* barrier_by_group: position in BARRIER_QUESTIONS
    response_id_index,  \* barrier_summary: column of "ResponseId"
    total_respondents,  \* barrier_summary
    barrier_columns,    \* barrier_summary: the keyword-selected columns, in order
    column_i,           \* barrier_summary: position in barrier_columns
    results,            \* list[BarrierResult]
    lines,              \* the report being assembled
    report,             \* OUTPUT_PATH: <<>> while absent, <<content>> once written
    chart,              \* CHART_PATH: <<>> while absent, <<content>> once written
    value               \* BarrierResult alone: <<>> or <<the percentage read>>

vars ==
    <<pipeline, rows, pc, exit, message, group_index, groups, group_totals, barrier_i,
      response_id_index, total_respondents, barrier_columns, column_i, results, lines,
      report, chart, value>>

\* rows[1] and rows[3:] of main()
questions == rows[2]
data_rows == SubSeq(rows, 4, Len(rows))

\* raise SystemExit(text), and an exception nothing catches
Terminate(kind, text) ==
    /\ pc' = "exited"
    /\ exit' = kind
    /\ message' = text

Continue(next) ==
    /\ pc' = next
    /\ UNCHANGED <<exit, message>>

(***************************************************************************)
(* analysis/barrier_by_group.py                                            *)
(***************************************************************************)
\* LIKERT_TOP_TWO taken from barrier_summary.py, which has no "Somewhat agree".
LIKERT_TOP_TWO_Unified == {StronglyAgree, Agree}

LIKERT_TOP_TWO == {StronglyAgree, SomewhatAgree, Agree}

BARRIER_QUESTIONS ==
    << [label |-> BARRIER_LABEL,
        question_text |-> BARRIER_QUESTION_TEXT,
        indicator_values |-> LIKERT_TOP_TWO] >>

BarrierResult(label, group, count, total) ==
    [label |-> label, group |-> group, count |-> count, total |-> total]

\* BarrierResult.percentage
percentage(result) ==
    IF result.total # 0 THEN Ratio(result.count * 100, result.total) ELSE Zero

\* group_values of main()
group_values == [k \in 1..Len(data_rows) |-> strip(data_rows[k][group_index])]

\* The set the comprehension of line 73 builds.
GroupSet == {group_values[k] : k \in {j \in 1..Len(data_rows) : group_values[j] # <<>>}}

\* The inner loop of main(): the rows of `group` whose stripped response indicates
\* the barrier.
GroupCount(group, question_index, indicator_values) ==
    Cardinality({k \in 1..Len(data_rows) :
        /\ strip(data_rows[k][group_index]) = group
        /\ strip(data_rows[k][question_index]) \in indicator_values})

\* sorted(barrier_results, key=lambda item: item.percentage): ascending, and stable
InsertByPercentage(sorted, item) ==
    LET k == Cardinality({i \in 1..Len(sorted) :
                 ~PctLess(percentage(item), percentage(sorted[i]))})
    IN  SubSeq(sorted, 1, k) \o <<item>> \o SubSeq(sorted, k + 1, Len(sorted))

RECURSIVE SortedByPercentage(_)
SortedByPercentage(list) ==
    IF list = <<>> THEN <<>>
    ELSE InsertByPercentage(SortedByPercentage(SubSeq(list, 1, Len(list) - 1)),
                            list[Len(list)])

ResultsOf(list, label) == SelectSeq(list, LAMBDA result : result.label = label)

\* One row of the "Barrier indicators" table.
TableLine(result) ==
    [label |-> result.label, group |-> result.group, count |-> result.count,
     total |-> result.total, percentage |-> Fmt1(percentage(result))]

\* SummaryLine skipping the barrier when the two percentages, not the two groups, are
\* the same.
SummaryLineByPercentage(list, barrier) ==
    LET barrier_results == ResultsOf(list, barrier.label)
        sorted_results == SortedByPercentage(barrier_results)
        lowest == sorted_results[1]
        highest == sorted_results[Len(sorted_results)]
    IN  IF barrier_results = <<>> THEN <<>>
        ELSE IF percentage(highest) = percentage(lowest) THEN <<>>
        ELSE << [more_likely |-> highest.group,
                 label |-> barrier.label,
                 than |-> lowest.group,
                 high |-> Fmt1(percentage(highest)),
                 low |-> Fmt1(percentage(lowest)),
                 gap |-> Fmt1(PctSub(percentage(highest), percentage(lowest)))] >>

\* The "Summary" loop body of main() for one barrier: no line or one line.
SummaryLine(list, barrier) ==
    LET barrier_results == ResultsOf(list, barrier.label)
        sorted_results == SortedByPercentage(barrier_results)
        lowest == sorted_results[1]
        highest == sorted_results[Len(sorted_results)]
    IN  IF barrier_results = <<>> THEN <<>>
        ELSE IF highest.group = lowest.group THEN <<>>
        ELSE << [more_likely |-> highest.group,
                 label |-> barrier.label,
                 than |-> lowest.group,
                 high |-> Fmt1(percentage(highest)),
                 low |-> Fmt1(percentage(lowest)),
                 gap |-> Fmt1(PctSub(percentage(highest), percentage(lowest)))] >>

RECURSIVE SummaryLines(_, _)
SummaryLines(list, i) ==
    IF i > Len(BARRIER_QUESTIONS) THEN <<>>
    ELSE SummaryLine(list, BARRIER_QUESTIONS[i]) \o SummaryLines(list, i + 1)

\* build_svg_chart: the title and one bar per group with its label, its value and
\* count label and its palette colour (the pixel geometry is left out).
build_svg_chart(chart_groups, percentages, counts, title) ==
    [title |-> title,
     bars |-> [idx \in 1..Len(chart_groups) |->
                  [group |-> chart_groups[idx],
                   value |-> Fmt1(percentages[idx]),
                   count |-> counts[idx],
                   color |-> (idx - 1) % 4]]]

\* The barriers that have results, in order: the chart loop draws the first of them.
ChartBarriers(list) ==
    SelectSeq(BARRIER_QUESTIONS, LAMBDA barrier : ResultsOf(list, barrier.label) # <<>>)

ByGroupLocals == <<group_index, groups, group_totals, barrier_i>>
SummaryLocals == <<response_id_index, total_respondents, barrier_columns, column_i>>
Outputs == <<lines, report, chart>>

\* ByGroupCheckRows with the threshold one too low.
ByGroupCheckRowsOffByOne ==
    /\ pipeline = "barrier_by_group" /\ pc = "start"
    /\ IF Len(rows) < 3
       THEN Terminate("SystemExit", MsgNotEnoughRows)
       ELSE Continue("find_group")
    /\ UNCHANGED <<pipeline, rows, ByGroupLocals, SummaryLocals, results, Outputs, value>>

\* main(), lines 60-65
ByGroupCheckRows ==
    /\ pipeline = "barrier_by_group" /\ pc = "start"
    /\ IF Len(rows) < 4
       THEN Terminate("SystemExit", MsgNotEnoughRows)
       ELSE Continue("find_group")
    /\ UNCHANGED <<pipeline, rows, ByGroupLocals, SummaryLocals, results, Outputs, value>>

\* ByGroupFindGroup falling back to the first column when the question is missing.
ByGroupFindGroupDefaulting ==
    /\ pipeline = "barrier_by_group" /\ pc = "find_group"
    /\ LET i == Index(questions, GROUP_QUESTION)
       IN  /\ Continue("groups")
           /\ group_index' = IF i = 0 THEN 1 ELSE i
    /\ UNCHANGED <<pipeline, rows, groups, group_totals, barrier_i, SummaryLocals,
                   results, Outputs, value>>

\* main(), lines 67-70
ByGroupFindGroup ==
    /\ pipeline = "barrier_by_group" /\ pc = "find_group"
    /\ LET i == Index(questions, GROUP_QUESTION)
       IN  IF i = 0
           THEN /\ Terminate("SystemExit", MsgGroupNotFound \o GROUP_QUESTION)
                /\ UNCHANGED group_index
           ELSE /\ Continue("groups")
                /\ group_index' = i
    /\ UNCHANGED <<pipeline, rows, groups, group_totals, barrier_i, SummaryLocals,
                   results, Outputs, value>>

\* main(), lines 72-81
ByGroupGroups ==
    /\ pipeline = "barrier_by_group" /\ pc = "groups"
    /\ groups' = SortedStrs(GroupSet)
    /\ IF groups' = <<>>
       THEN /\ Terminate("SystemExit", MsgNoGroups)
            /\ UNCHANGED <<group_totals, results, barrier_i>>
       ELSE /\ Continue("barriers")
            /\ group_totals' =
                   [group \in GroupSet |->
                       Cardinality({k \in 1..Len(data_rows) : group_values[k] = group})]
            /\ results' = <<>>
            /\ barrier_i' = 1
    /\ UNCHANGED <<pipeline, rows, group_index, SummaryLocals, Outputs, value>>

\* main(), lines 83-102: one turn of the loop over BARRIER_QUESTIONS
ByGroupBarrier ==
    /\ pipeline = "barrier_by_group" /\ pc = "barriers"
    /\ barrier_i <= Len(BARRIER_QUESTIONS)
    /\ LET barrier == BARRIER_QUESTIONS[barrier_i]
           question_index == Index(questions, barrier.question_text)
       IN  IF question_index = 0
           THEN /\ Terminate("SystemExit", MsgBarrierNotFound \o barrier.question_text)
                /\ UNCHANGED <<results, barrier_i>>
           ELSE /\ results' = results \o
                       [g \in 1..Len(groups) |->
                           BarrierResult(barrier.label, groups[g],
                               GroupCount(groups[g], question_index,
                                          barrier.indicator_values),
                               group_totals[groups[g]])]
                /\ barrier_i' = barrier_i + 1
                /\ Continue(IF barrier_i = Len(BARRIER_QUESTIONS)
                            THEN "render" ELSE "barriers")
    /\ UNCHANGED <<pipeline, rows, group_index, groups, group_totals, SummaryLocals,
                   Outputs, value>>

\* main(), lines 104-165: the table rows and the summary lines of the report
ByGroupRender ==
    /\ pipeline = "barrier_by_group" /\ pc = "render"
    /\ lines' = [table |-> [k \in 1..Len(results) |-> TableLine(results[k])],
                 summary |-> SummaryLines(results, 1)]
    /\ Continue("write_report")
    /\ UNCHANGED <<pipeline, rows, ByGroupLocals, SummaryLocals, results, report, chart,
                   value>>

\* main(), line 167
ByGroupWriteReport ==
    /\ pipeline = "barrier_by_group" /\ pc = "write_report"
    /\ report' = <<lines>>
    /\ Continue("write_chart")
    /\ UNCHANGED <<pipeline, rows, ByGroupLocals, SummaryLocals, results, lines, chart,
                   value>>

\* main(), lines 169-184: the chart of the first barrier that has results
ByGroupWriteChart ==
    /\ pipeline = "barrier_by_group" /\ pc = "write_chart"
    /\ IF ChartBarriers(results) = <<>>
       THEN UNCHANGED <<chart, groups>>
       ELSE LET barrier == ChartBarriers(results)[1]
                chart_results == ResultsOf(results, barrier.label)
                n == Len(chart_results)
            IN  /\ groups' = [k \in 1..n |-> chart_results[k].group]
                /\ chart' = << build_svg_chart(
                       groups',
                       [k \in 1..n |-> percentage(chart_results[k])],
                       [k \in 1..n |-> <<chart_results[k].count, chart_results[k].total>>],
                       barrier.label) >>
    /\ pc' = "exited"
    /\ exit' = "returned"
    /\ UNCHANGED <<pipeline, rows, message, group_index, group_totals, barrier_i,
                   SummaryLocals, results, lines, report, value>>

(***************************************************************************)
(* analysis/barrier_summary.py                                             *)
(***************************************************************************)
BARRIER_KEYWORDS == <<KwBarrier, KwObstacle, KwChallenge, KwDifficulty, KwDifficult>>

SUMMARY_LIKERT_TOP_TWO == {StronglyAgree, Agree}

LIKERT_SETS ==
    { {StronglyAgree, Agree, NeitherAgree, Disagree, StronglyDisagree},
      {VeryImportant, ExtremelyImportant, ModeratelyImportant, SlightlyImportant,
       NotAtAllImportant},
      {VeryLikely, SomewhatLikely, NeitherLikely, SomewhatUnlikely, VeryUnlikely} }

is_barrier_question(question) ==
    LET lowered == lower(question)
    IN  \E k \in 1..Len(BARRIER_KEYWORDS) : Contains(lowered, BARRIER_KEYWORDS[k])

is_multiselect(values) == values \subseteq {Selected, NotSelected}

\* is_likert testing the values against all the scales at once.
is_likert_AnyScale(values) == values \subseteq UNION LIKERT_SETS

is_likert(values) == \E likert_set \in LIKERT_SETS : values \subseteq likert_set

headers == rows[1]

\* The dict comprehension of main(): the keyword-matching columns, in column order.
RECURSIVE BarrierColumns(_)
BarrierColumns(n) ==
    IF n = 0 THEN <<>>
    ELSE BarrierColumns(n - 1) \o
         (IF is_barrier_question(questions[n]) THEN <<n>> ELSE <<>>)

\* column_values of main() for column idx
ColumnValues(idx) ==
    {data_rows[k][idx] : k \in {j \in 1..Len(data_rows) : data_rows[j][idx] # <<>>}}

\* The if / elif / else of main() that counts one column.
ColumnCount(idx) ==
    IF is_multiselect(ColumnValues(idx))
    THEN Cardinality({k \in 1..Len(data_rows) : data_rows[k][idx] = Selected})
    ELSE IF is_likert(ColumnValues(idx))
    THEN Cardinality({k \in 1..Len(data_rows) :
             data_rows[k][idx] \in SUMMARY_LIKERT_TOP_TWO})
    ELSE Cardinality({k \in 1..Len(data_rows) : strip(data_rows[k][idx]) # <<>>})

\* SummaryPercentage dividing by max(total, 1).
SummaryPercentageClamped(count, total) ==
    Ratio(count * 100, IF total # 0 THEN total ELSE 1)

\* percentage of main(), line 121
SummaryPercentage(count, total) ==
    IF total # 0 THEN Ratio(count * 100, total) ELSE Zero

\* InsertByCount placing an item before the items of the same count.
InsertByCountUnstable(sorted, item) ==
    LET k == Cardinality({i \in 1..Len(sorted) : sorted[i].count > item.count})
    IN  SubSeq(sorted, 1, k) \o <<item>> \o SubSeq(sorted, k + 1, Len(sorted))

\* results.sort(key=lambda item: item.count, reverse=True): descending, and stable
InsertByCount(sorted, item) ==
    LET k == Cardinality({i \in 1..Len(sorted) : sorted[i].count >= item.count})
    IN  SubSeq(sorted, 1, k) \o <<item>> \o SubSeq(sorted, k + 1, Len(sorted))

RECURSIVE SortedByCount(_)
SortedByCount(list) ==
    IF list = <<>> THEN <<>>
    ELSE InsertByCount(SortedByCount(SubSeq(list, 1, Len(list) - 1)), list[Len(list)])

\* main(), lines 89-95
SummaryCheckRows ==
    /\ pipeline = "barrier_summary" /\ pc = "start"
    /\ IF Len(rows) < 4
       THEN Terminate("SystemExit", MsgNotEnoughRows)
       ELSE Continue("find_response_id")
    /\ UNCHANGED <<pipeline, rows, ByGroupLocals, SummaryLocals, results, Outputs, value>>

\* main(), line 97: headers.index raises ValueError, which nothing catches
SummaryFindResponseId ==
    /\ pipeline = "barrier_summary" /\ pc = "find_response_id"
    /\ LET i == Index(headers, ResponseId)
       IN  IF i = 0
           THEN /\ Terminate("ValueError", MsgValueError)
                /\ UNCHANGED response_id_index
           ELSE /\ Continue("count_respondents")
                /\ response_id_index' = i
    /\ UNCHANGED <<pipeline, rows, ByGroupLocals, total_respondents, barrier_columns,
                   column_i, results, Outputs, value>>

\* main(), lines 98-106
SummaryCountRespondents ==
    /\ pipeline = "barrier_summary" /\ pc = "count_respondents"
    /\ total_respondents' =
           Cardinality({k \in 1..Len(data_rows) :
               strip(data_rows[k][response_id_index]) # <<>>})
    /\ barrier_columns' = BarrierColumns(Len(questions))
    /\ results' = <<>>
    /\ column_i' = 1
    /\ Continue("columns")
    /\ UNCHANGED <<pipeline, rows, ByGroupLocals, response_id_index, Outputs, value>>

\* main(), lines 108-122: one turn of the loop over barrier_columns
SummaryColumn ==
    /\ pipeline = "barrier_summary" /\ pc = "columns"
    /\ column_i <= Len(barrier_columns)
    /\ LET idx == barrier_columns[column_i]
           count == ColumnCount(idx)
       IN  results' =
               IF ColumnValues(idx) = {} THEN results
               ELSE Append(results,
                        [name |-> questions[idx], count |-> count,
                         percentage |-> SummaryPercentage(count, total_respondents)])
    /\ column_i' = column_i + 1
    /\ Continue("columns")
    /\ UNCHANGED <<pipeline, rows, ByGroupLocals, response_id_index, total_respondents,
                   barrier_columns, Outputs, value>>

\* main(), line 124, reached when the loop over barrier_columns ends
SummarySort ==
    /\ pipeline = "barrier_summary" /\ pc = "columns"
    /\ column_i > Len(barrier_columns)
    /\ results' = SortedByCount(results)
    /\ Continue("render")
    /\ UNCHANGED <<pipeline, rows, ByGroupLocals, SummaryLocals, Outputs, value>>

\* main(), lines 126-154: the total, and the table or the no-columns notice
SummaryRender ==
    /\ pipeline = "barrier_summary" /\ pc = "render"
    /\ lines' = [total |-> total_respondents,
                 table |-> [k \in 1..Len(results) |->
                               [name |-> results[k].name, count |-> results[k].count,
                                percentage |-> Fmt1(results[k].percentage)]],
                 chart |-> "none"]
    /\ Continue(IF results = <<>> THEN "write_report" ELSE "chart")
    /\ UNCHANGED <<pipeline, rows, ByGroupLocals, SummaryLocals, results, report, chart,
                   value>>

\* main(), lines 156-178: the top-10 chart, or the note when matplotlib is missing
SummaryChart ==
    /\ pipeline = "barrier_summary" /\ pc = "chart"
    /\ \/ LET top_results == SubSeq(results, 1, IF Len(results) < 10 THEN Len(results) ELSE 10)
          IN  /\ chart' = << [labels |-> [k \in 1..Len(top_results) |-> top_results[k].name],
                              counts |-> [k \in 1..Len(top_results) |-> top_results[k].count]] >>
              /\ lines' = [lines EXCEPT !.chart = "image"]
       \/ /\ lines' = [lines EXCEPT !.chart = "not generated"]
          /\ UNCHANGED chart
    /\ Continue("write_report")
    /\ UNCHANGED <<pipeline, rows, ByGroupLocals, SummaryLocals, results, report, value>>

\* main(), line 180
SummaryWriteReport ==
    /\ pipeline = "barrier_summary" /\ pc = "write_report"
    /\ report' = <<lines>>
    /\ pc' = "exited"
    /\ exit' = "returned"
    /\ UNCHANGED <<pipeline, rows, message, ByGroupLocals, SummaryLocals, results, lines,
                   chart, value>>

(***************************************************************************)
(* The BarrierResult dataclass of barrier_by_group.py on its own: an        *)
(* instance with any count and total, and a read of its percentage.        *)
(***************************************************************************)
ReadPercentage ==
    /\ pipeline = "BarrierResult" /\ pc = "constructed"
    /\ value' = <<percentage(results[1])>>
    /\ pc' = "exited"
    /\ exit' = "returned"
    /\ UNCHANGED <<pipeline, rows, message, ByGroupLocals, SummaryLocals, results,
                   Outputs>>

(***************************************************************************)
(* The input tables: every row has the width of the header row.            *)
(***************************************************************************)
SeqsUpTo(S, n) == UNION {[1..k -> S] : k \in 0..n}

\* What is left of a file that ends after n rows.
FirstRows(table, n) == SubSeq(table, 1, IF n < Len(table) THEN n ELSE Len(table))

\* barrier_by_group: two columns; the question-text row places, repeats or omits the
\* group question and the barrier question.
ByGroupQuestionTexts == {GROUP_QUESTION, BARRIER_QUESTION_TEXT, OtherQuestion}
ByGroupQuestionRows == {<<a, b>> : a \in ByGroupQuestionTexts, b \in ByGroupQuestionTexts}
ByGroupDataRows ==
    {<<g, r>> : g \in {Empty, Blank, Graduate, GraduatePadded, Undergraduate},
                r \in {Agree, AgreePadded, Disagree}}

ByGroupTables ==
    {FirstRows(<<(<<QID1, QID2>>), q, <<ImportId, ImportId>>>> \o d, n) :
        q \in ByGroupQuestionRows, d \in SeqsUpTo(ByGroupDataRows, MaxDataRows),
        n \in 0..(3 + MaxDataRows)}

\* The table of the worked example: 20 Undergraduate rows of which 4 agree, then 10
\* Graduate rows of which 6 agree, the agreeing rows spread over the three indicator
\* values.
ExampleTable ==
    <<(<<QID1, QID2>>), <<GROUP_QUESTION, BARRIER_QUESTION_TEXT>>, <<ImportId, ImportId>>>> \o
    [k \in 1..30 |->
        IF k <= 20
        THEN <<Undergraduate,
               IF k \in {3, 9} THEN Agree
               ELSE IF k = 12 THEN StronglyAgree
               ELSE IF k = 20 THEN SomewhatAgree
               ELSE IF k % 2 = 0 THEN Disagree ELSE NeitherAgree>>
        ELSE <<Graduate,
               IF k \in {21, 22, 25} THEN StronglyAgree
               ELSE IF k \in {27, 30} THEN Agree
               ELSE IF k = 28 THEN SomewhatAgree
               ELSE IF k = 23 THEN Empty ELSE StronglyDisagree>>]

\* barrier_summary, two columns: "ResponseId" first, second or absent, and the keyword
\* in the second, in both or in none of the question texts; the second column holds
\* a selection, a Likert answer of two scales, free text (blank or not) or nothing.
SummaryHeaderRows == {<<ResponseId, QID1>>, <<QID1, ResponseId>>, <<QID1, QID2>>}
SummaryQuestionRows ==
    {<<OtherQuestion, QBarrier>>, <<QChallenge, QBarrier>>, <<OtherQuestion, OtherQuestion>>}
SummaryDataRows ==
    {<<a, b>> : a \in {Blank, R1},
                b \in {Empty, Blank, Selected, NotSelected, Agree, Disagree, VeryLikely}}

SummaryTables ==
    {FirstRows(<<h, q, <<ImportId, ImportId>>>> \o d, n) :
        h \in SummaryHeaderRows, q \in SummaryQuestionRows,
        d \in SeqsUpTo(SummaryDataRows, MaxDataRows), n \in 0..(3 + MaxDataRows)}

\* barrier_summary, four columns: the respondent id and three keyword columns of
\* check boxes, for the ranking.
RankingDataRows ==
    {<<R1, b, c, d>> : b \in {Empty, Selected}, c \in {Empty, Selected},
                       d \in {Empty, Selected}}

RankingTables ==
    {<<(<<ResponseId, QID1, QID2, QID3>>), <<OtherQuestion, QBarrier, QChallenge, QBarrier>>,
       <<ImportId, ImportId, ImportId, ImportId>>>> \o d :
        d \in SeqsUpTo(RankingDataRows, MaxDataRows)}

Init ==
    /\ \/ /\ pipeline = "barrier_by_group"
          /\ rows \in ByGroupTables \cup {ExampleTable}
          /\ pc = "start"
          /\ results = <<>>
       \/ /\ pipeline = "barrier_summary"
          /\ rows \in SummaryTables \cup RankingTables
          /\ pc = "start"
          /\ results = <<>>
       \/ /\ pipeline = "BarrierResult"
          /\ rows = <<>>
          /\ pc = "constructed"
          /\ \E count \in 0..MaxProbe, total \in 0..MaxProbe :
                 results = <<BarrierResult(BARRIER_LABEL, Graduate, count, total)>>
    /\ exit = "running"
    /\ message = <<>>
    /\ group_index = 0
    /\ groups = <<>>
    /\ group_totals = <<>>
    /\ barrier_i = 0
    /\ response_id_index = 0
    /\ total_respondents = 0
    /\ barrier_columns = <<>>
    /\ column_i = 0
    /\ lines = <<>>
    /\ report = <<>>
    /\ chart = <<>>
    /\ value = <<>>

Next ==
    \/ ByGroupCheckRows
    \/ ByGroupFindGroup
    \/ ByGroupGroups
    \/ ByGroupBarrier
    \/ ByGroupRender
    \/ ByGroupWriteReport
    \/ ByGroupWriteChart
    \/ SummaryCheckRows
    \/ SummaryFindResponseId
    \/ SummaryCountRespondents
    \/ SummaryColumn
    \/ SummarySort
    \/ SummaryRender
    \/ SummaryChart
    \/ SummaryWriteReport
    \/ ReadPercentage

Spec == Init /\ [][Next]_vars

(***************************************************************************)
(* Properties.                                                             *)
(***************************************************************************)
Returned == pc = "exited" /\ exit = "returned"

Untouched ==
    /\ group_index = 0 /\ groups = <<>> /\ group_totals = <<>> /\ barrier_i = 0
    /\ response_id_index = 0 /\ total_respondents = 0 /\ barrier_columns = <<>>
    /\ column_i = 0 /\ results = <<>> /\ report = <<>> /\ chart = <<>>

\* C1: in both pipelines a table of fewer than 4 rows ends the run with "Dataset does
\* not contain enough rows to parse.", nothing else having been looked up, computed
\* or written before that check; a table of 4 or more rows never ends with that
\* message.
C1_TooFewRowsAbort ==
    pipeline \in {"barrier_by_group", "barrier_summary"} =>
        /\ (pc # "start" /\ Len(rows) < 4) =>
               /\ pc = "exited"
               /\ exit = "SystemExit"
               /\ message = MsgNotEnoughRows
               /\ Untouched
        /\ Len(rows) >= 4 => message # MsgNotEnoughRows
        /\ pc = "start" => exit = "running" /\ Untouched

\* A by-group run on a file of exactly 3 rows has been terminated.
C1_Witness ==
    /\ pipeline = "barrier_by_group"
    /\ Len(rows) = 3
    /\ pc = "exited"
    /\ message = MsgNotEnoughRows

\* C2: in the ranked summary, a header row without "ResponseId" ends the run the way
\* the other fatal conditions do, by SystemExit with a diagnostic, and no output file
\* is written.
C2_MissingResponseIdDiagnosed ==
    ( /\ pipeline = "barrier_summary"
      /\ pc = "exited"
      /\ Len(rows) >= 4
      /\ \A i \in 1..Len(headers) : headers[i] # ResponseId )
    => /\ exit = "SystemExit"
       /\ report = <<>>
       /\ chart = <<>>

\* C3: in the group comparison each fatal condition found after loading (group
\* question absent; no group value that is non-blank after stripping; barrier
\* question absent) ends the run at the step that finds it, with a message that, for
\* a missing question, ends in the question's text; a run without any of them
\* returns with both files written; and a terminated run has written neither file.
C3_AbortsBeforeOutput ==
    (pipeline = "barrier_by_group" /\ Len(rows) >= 4) =>
        LET group_absent == \A i \in 1..Len(questions) : questions[i] # GROUP_QUESTION
            gi == CHOOSE i \in 1..Len(questions) :
                      /\ questions[i] = GROUP_QUESTION
                      /\ \A j \in 1..(i - 1) : questions[j] # GROUP_QUESTION
            no_groups == \A k \in 1..Len(data_rows) : strip(data_rows[k][gi]) = <<>>
            barrier_absent ==
                \A i \in 1..Len(questions) : questions[i] # BARRIER_QUESTION_TEXT
            after_group == {"groups", "barriers", "render", "write_report", "write_chart"}
            after_groups == {"barriers", "render", "write_report", "write_chart"}
            after_barrier == {"render", "write_report", "write_chart"}
        IN  /\ exit = "SystemExit" => pc = "exited" /\ report = <<>> /\ chart = <<>>
            /\ pc \in after_group => ~group_absent
            /\ pc \in after_groups => ~no_groups
            /\ pc \in after_barrier => ~barrier_absent
            /\ pc = "exited" =>
                   IF group_absent
                   THEN /\ exit = "SystemExit"
                        /\ message = MsgGroupNotFound \o GROUP_QUESTION
                   ELSE IF no_groups
                   THEN exit = "SystemExit" /\ message = MsgNoGroups
                   ELSE IF barrier_absent
                   THEN /\ exit = "SystemExit"
                        /\ message = MsgBarrierNotFound \o BARRIER_QUESTION_TEXT
                        /\ Contains(message, BARRIER_QUESTION_TEXT)
                   ELSE exit = "returned" /\ report # <<>> /\ chart # <<>>

\* A run with groups found and the barrier question missing has been terminated.
C3_Witness ==
    /\ pipeline = "barrier_by_group"
    /\ pc = "exited"
    /\ exit = "SystemExit"
    /\ groups = <<Graduate, Undergraduate>>
    /\ message = MsgBarrierNotFound \o BARRIER_QUESTION_TEXT
    /\ report = <<>>
    /\ chart = <<>>

\* C4: BarrierResult.percentage is 0.0 when total is 0 and count / total * 100
\* otherwise; in the ranked summary every result's percentage is 0.0 when no data row
\* has a non-blank ResponseId, whatever its count, and count / total * 100 otherwise.
C4_ZeroTotalZeroPercent ==
    /\ (pipeline = "BarrierResult" /\ value # <<>>) =>
           LET result == results[1]
           IN  /\ result.total = 0 => value[1].num = 0
               /\ result.total # 0 =>
                      value[1].num * result.total = result.count * 100 * value[1].den
    /\ (pipeline = "barrier_summary" /\ response_id_index # 0 /\ pc # "count_respondents") =>
           LET id == CHOOSE i \in 1..Len(headers) :
                         /\ headers[i] = ResponseId
                         /\ \A j \in 1..(i - 1) : headers[j] # ResponseId
               total == Cardinality({k \in 1..Len(data_rows) :
                            \E c \in 1..Len(data_rows[k][id]) :
                                ~IsSpace(data_rows[k][id][c])})
           IN  \A k \in 1..Len(results) :
                   /\ total = 0 => results[k].percentage.num = 0
                   /\ total # 0 =>
                          results[k].percentage.num * total =
                              results[k].count * 100 * results[k].percentage.den

\* A ranked summary has returned with a result of positive count although no data
\* row has a non-blank ResponseId.
C4_Witness ==
    /\ pipeline = "barrier_summary"
    /\ Returned
    /\ total_respondents = 0
    /\ \E k \in 1..Len(results) :
           results[k].count > 0 /\ results[k].percentage = Zero

\* The positions of main() in barrier_by_group at which `results` is complete.
ByGroupComputed ==
    /\ pipeline = "barrier_by_group"
    /\ (pc \in {"render", "write_report", "write_chart"} \/ Returned)

\* The stripped group value of data row k, and whether a str is blank.
StrippedGroup(k) == strip(data_rows[k][Index(questions, GROUP_QUESTION)])
IsBlank(s) == \A c \in 1..Len(s) : IsSpace(s[c])

\* C5: the groups are the distinct group values that are non-blank after stripping,
\* each once, in ascending code-point order, whatever the order of the data rows;
\* the results of every barrier, the table rows and the chart bars follow that order.
C5_GroupsAscending ==
    (pipeline = "barrier_by_group" /\ group_index # 0 /\ pc # "groups") =>
        /\ {groups[i] : i \in 1..Len(groups)} =
               {StrippedGroup(k) : k \in {j \in 1..Len(data_rows) :
                                             ~IsBlank(data_rows[j][group_index])}}
        /\ \A i \in 1..Len(groups) : \A j \in (i + 1)..Len(groups) :
               StrLess(groups[i], groups[j])
        /\ \A b \in 1..Len(BARRIER_QUESTIONS) :
               LET of_barrier == SelectSeq(results,
                       LAMBDA result : result.label = BARRIER_QUESTIONS[b].label)
               IN  of_barrier # <<>> =>
                       [k \in 1..Len(of_barrier) |-> of_barrier[k].group] = groups
        /\ report # <<>> =>
               [k \in 1..Len(report[1].table) |-> report[1].table[k].group] = groups
        /\ chart # <<>> =>
               [k \in 1..Len(chart[1].bars) |-> chart[1].bars[k].group] = groups

\* Undergraduate comes first in the file and Graduate, padded with spaces, second;
\* the run has returned with Graduate first in the groups and in the chart.
C5_Witness ==
    /\ pipeline = "barrier_by_group"
    /\ Returned
    /\ Len(data_rows) = 2
    /\ data_rows[1][group_index] = Undergraduate
    /\ data_rows[2][group_index] = GraduatePadded
    /\ groups = <<Graduate, Undergraduate>>
    /\ chart[1].bars[1].group = Graduate

\* The positions of main() in barrier_summary at which `results` is sorted.
SummarySorted ==
    /\ pipeline = "barrier_summary"
    /\ (pc \in {"render", "chart", "write_report"} \/ Returned)

\* The columns of the ranked summary that yield a result: a keyword-selected column
\* with at least one non-empty data value.
ResultColumns ==
    {idx \in {barrier_columns[n] : n \in 1..Len(barrier_columns)} :
        \E r \in 1..Len(data_rows) : data_rows[r][idx] # <<>>}

\* C6: the final results are the computed results, one per result column, none added
\* or dropped, in descending count, two of equal count in column order: the result
\* of a column stands after exactly those of the columns with a greater count and of
\* the earlier columns with the same count.
C6_RankedStable ==
    SummarySorted =>
        LET columns == ResultColumns
            count == [c \in columns |-> ColumnCount(c)]
            Ahead(c) == {d \in columns :
                \/ count[d] > count[c]
                \/ count[d] = count[c] /\ d < c}
        IN  /\ Len(results) = Cardinality(columns)
            /\ \A c \in columns :
                   /\ results[Cardinality(Ahead(c)) + 1].name = questions[c]
                   /\ results[Cardinality(Ahead(c)) + 1].count = count[c]
            /\ \A i \in 1..Len(results) : \A j \in (i + 1)..Len(results) :
                   results[i].count >= results[j].count

\* Three check-box columns with counts 1, 1 and 2: the last column is ranked first
\* and the two tied columns keep their order.
C6_Witness ==
    /\ SummarySorted
    /\ Len(questions) = 4
    /\ ColumnCount(2) = 1 /\ ColumnCount(3) = 1 /\ ColumnCount(4) = 2
    /\ Len(results) = 3
    /\ results[1].count = 2
    /\ results[2].name = questions[2]
    /\ results[3].name = questions[3]

\* C7: for each barrier label the summary line is emitted exactly when the highest
\* and the lowest percentage are held by two different groups; the line then names
\* a group holding the highest percentage as more likely than a group holding the
\* lowest, with both percentages and the gap highest - lowest to one decimal place.
C7_ComparisonLine ==
    (ByGroupComputed /\ pc # "render") =>
        \A b \in 1..Len(BARRIER_QUESTIONS) :
            LET label == BARRIER_QUESTIONS[b].label
                of_barrier == {k \in 1..Len(results) : results[k].label = label}
                IsMax(k) == \A j \in of_barrier :
                    results[j].count * results[k].total <= results[k].count * results[j].total
                IsMin(k) == \A j \in of_barrier :
                    results[k].count * results[j].total <= results[j].count * results[k].total
                emitted == {n \in 1..Len(lines.summary) : lines.summary[n].label = label}
            IN  /\ Cardinality(emitted) <= 1
                /\ emitted # {} <=>
                       \E h \in of_barrier, l \in of_barrier :
                           IsMax(h) /\ IsMin(l) /\ results[h].group # results[l].group
                /\ \A n \in emitted :
                       \E h \in of_barrier, l \in of_barrier :
                           /\ IsMax(h) /\ IsMin(l)
                           /\ lines.summary[n].more_likely = results[h].group
                           /\ lines.summary[n].than = results[l].group
                           /\ results[h].group # results[l].group
                           /\ lines.summary[n].high = Fmt1(percentage(results[h]))
                           /\ lines.summary[n].low = Fmt1(percentage(results[l]))
                           /\ lines.summary[n].gap =
                                  Fmt1(Ratio(
                                      100 * (results[h].count * results[l].total
                                             - results[l].count * results[h].total),
                                      results[h].total * results[l].total))

\* A report with two groups, 100.0% against 0.0%, and its comparison line.
C7_Witness ==
    /\ pipeline = "barrier_by_group"
    /\ report # <<>>
    /\ Len(results) = 2
    /\ Len(report[1].summary) = 1
    /\ report[1].summary[1].more_likely = Undergraduate
    /\ report[1].summary[1].than = Graduate
    /\ report[1].summary[1].gap = 1000

\* C8: for every barrier question and every group there is one result, whose total
\* is the number of data rows of that group (after stripping) and whose count is the
\* number of those rows whose stripped response is "Strongly agree", "Somewhat
\* agree" or "Agree"; in the worked example the table reads Graduate 6 / 10 60.0%,
\* Undergraduate 4 / 20 20.0%, and the summary line names Graduate as more likely
\* than Undergraduate with a gap of 40.0.
C8_PerGroupCounts ==
    ByGroupComputed =>
        LET barrier == Index(questions, BARRIER_QUESTION_TEXT)
            all_groups == {StrippedGroup(k) : k \in 1..Len(data_rows)} \ {<<>>}
            Members(g) == {k \in 1..Len(data_rows) : StrippedGroup(k) = g}
        IN  /\ Len(results) = Cardinality(all_groups)
            /\ {results[k].group : k \in 1..Len(results)} = all_groups
            /\ \A k \in 1..Len(results) :
                   /\ results[k].label = BARRIER_LABEL
                   /\ results[k].total = Cardinality(Members(results[k].group))
                   /\ results[k].count =
                          Cardinality({m \in Members(results[k].group) :
                              strip(data_rows[m][barrier]) \in
                                  {StronglyAgree, SomewhatAgree, Agree}})
            /\ (rows = ExampleTable /\ report # <<>>) =>
                   /\ report[1].table =
                          << [label |-> BARRIER_LABEL, group |-> Graduate, count |-> 6,
                              total |-> 10, percentage |-> 600],
                             [label |-> BARRIER_LABEL, group |-> Undergraduate,
                              count |-> 4, total |-> 20, percentage |-> 200] >>
                   /\ report[1].summary =
                          << [more_likely |-> Graduate, label |-> BARRIER_LABEL,
                              than |-> Undergraduate, high |-> 600, low |-> 200,
                              gap |-> 400] >>

\* The worked example has run to the end.
C8_Witness ==
    /\ rows = ExampleTable
    /\ Returned
    /\ report # <<>>
    /\ Len(results) = 2

\* The count the three rules give for the non-empty value set of column idx.
RuleCount(idx) ==
    LET cells == [k \in 1..Len(data_rows) |-> data_rows[k][idx]]
        observed == {cells[k] : k \in 1..Len(cells)} \ {<<>>}
        agreement == {StronglyAgree, Agree, NeitherAgree, Disagree, StronglyDisagree}
        importance == {VeryImportant, ExtremelyImportant, ModeratelyImportant,
                       SlightlyImportant, NotAtAllImportant}
        likelihood == {VeryLikely, SomewhatLikely, NeitherLikely, SomewhatUnlikely,
                       VeryUnlikely}
    IN  IF observed \subseteq {Selected, NotSelected}
        THEN Cardinality({k \in 1..Len(cells) : cells[k] = Selected})
        ELSE IF \/ observed \subseteq agreement
                \/ observed \subseteq importance
                \/ observed \subseteq likelihood
        THEN Cardinality({k \in 1..Len(cells) : cells[k] \in {StronglyAgree, Agree}})
        ELSE Cardinality({k \in 1..Len(cells) : ~IsBlank(cells[k])})

\* The results the loop has appended after its first n turns.
RECURSIVE RuleResults(_)
RuleResults(n) ==
    IF n = 0 THEN <<>>
    ELSE LET idx == barrier_columns[n]
         IN  RuleResults(n - 1) \o
             (IF \E k \in 1..Len(data_rows) : data_rows[k][idx] # <<>>
              THEN <<[name |-> questions[idx], count |-> RuleCount(idx)]>>
              ELSE <<>>)

\* C9: each keyword-selected column with a non-empty data value gets one result,
\* counted by the first rule its non-empty value set meets: subset of {"Selected",
\* "Not Selected"}: rows equal to "Selected"; subset of one Likert vocabulary: rows
\* in {"Strongly agree", "Agree"}; otherwise: rows with a non-blank value.
C9_ClassifyAndCount ==
    (pipeline = "barrier_summary" /\ pc = "columns") =>
        /\ \A n \in 1..Len(barrier_columns) :
               \E k \in 1..Len(BARRIER_KEYWORDS) :
                   Contains(lower(questions[barrier_columns[n]]), BARRIER_KEYWORDS[k])
        /\ [k \in 1..Len(results) |->
               [name |-> results[k].name, count |-> results[k].count]] =
               RuleResults(column_i - 1)

\* A column holding exactly "Selected" and "Not Selected" has been counted as a
\* selection column: one row selected.
C9_Witness ==
    /\ pipeline = "barrier_summary"
    /\ pc = "columns"
    /\ barrier_columns = <<2>>
    /\ column_i = 2
    /\ {data_rows[k][2] : k \in 1..Len(data_rows)} = {Selected, NotSelected}
    /\ results = <<[name |-> QBarrier, count |-> 1,
                    percentage |-> results[1].percentage]>>

\* C10: in every result of either pipeline the count does not exceed the total in
\* scope: the group's total in the group comparison, and in the ranked summary the
\* number of data rows with a non-blank ResponseId.
C10_CountWithinTotal ==
    /\ pipeline = "barrier_by_group" =>
           \A k \in 1..Len(results) : results[k].count <= results[k].total
    /\ (pipeline = "barrier_summary" /\ response_id_index # 0) =>
           \A k \in 1..Len(results) :
               results[k].count <=
                   Cardinality({r \in 1..Len(data_rows) :
                       ~IsBlank(data_rows[r][Index(headers, ResponseId)])})

=============================================================================
